---------------------------- MODULE Spec2Model ----------------------------
(***************************************************************************)
(* Model of retro's two offline batch jobs:                                *)
(*   - retro/tables/generate_t_indep_tables.py : generate_time_indep_tables *)
(*   - retro/utils/fit_prior_dist.py : extract, fit_distributions_to_data, *)
(*     fit                                                                 *)
(* Strings (paths) are sequences of one-character strings, arrays are      *)
(* records [shape, data] with 0-based index tuples as numpy has them.      *)
(***************************************************************************)
EXTENDS Integers, Sequences, FiniteSets, TLC

VARIABLES
    fs,     \* the file system: path -> [type, content]
    pre,    \* the file system as it was when the last call started
    last,   \* the last call of generate_time_indep_tables: arguments and outcome
    ncalls, \* the number of calls made so far
    \* fit_distributions_to_data
    fpc,            \* where the call is: "start", "collect", "match", "done", "raised"
    distributions,  \* the names of the distributions to fit, in argument order
    n_procs,        \* the n_procs argument (cpu_count() when None)
    timeout,        \* whether a timeout is given (FALSE: timeout=None)
    outfile,        \* whether an outfile is given (FALSE: outfile=None)
    processes,      \* the number of worker processes of the pool
    workers,        \* per submitted task: "queued", "running" or "done"
    waiting,        \* the index in `workers` of the get() the caller is in
    results,        \* the list `results`
    results_d,      \* the OrderedDict `results_d`: a sequence of [key, value]
    \* extract and fit
    xpc,        \* "start", "returned" or "raised"
    files,      \* the .npy files on disk: <<abs_flav, i, name>> -> array
    truth,      \* the array `truth` extract returns and saves
    reco_vals,  \* the OrderedDict `reco_vals` extract returns and saves
    reco_perf,  \* the summary: one record per (reco, param)
    xraised,    \* the exception that ended extract, or "none"
    fits        \* what the last call of fit selected, per param

tvars == <<fs, pre, last, ncalls>>

fvars ==
    <<fpc, distributions, n_procs, timeout, outfile, processes, workers,
      waiting, results, results_d>>

xvars == <<xpc, files, truth, reco_vals, reco_perf, xraised, fits>>

vars == <<tvars, fvars, xvars>>

---------------------------------------------------------------------------
(* Bounds *)

\* Longest axis of a source table.
MaxDim == 3

\* Longest stem of a table file name.
MaxStem == 2

\* Most runs of the table generator on one file system.
MaxCalls == 2

\* Most distributions in one call of fit_distributions_to_data.
MaxDists == 3

\* Largest n_procs.
MaxProcs == 2

\* Most numbered sample directories of one flavor.
MaxFiles == 2

---------------------------------------------------------------------------
(* Python strings and os.path *)

None == <<"None">>

DOT_NPY == <<".", "n", "p", "y">>

DOT_FITS == <<".", "f", "i", "t", "s">>

TABLE_NPY == <<"t", "a", "b", "l", "e">> \o DOT_NPY

CKV_TABLE_NPY == <<"c", "k", "v", "_">> \o TABLE_NPY

T_INDEP_TABLE_NPY == <<"t", "_", "i", "n", "d", "e", "p", "_">> \o TABLE_NPY

T_INDEP_CKV_TABLE_NPY ==
    <<"t", "_", "i", "n", "d", "e", "p", "_">> \o CKV_TABLE_NPY

Max(a, b) == IF a >= b THEN a ELSE b

\* str.endswith
EndsWith(s, suf) ==
    /\ Len(s) >= Len(suf)
    /\ SubSeq(s, Len(s) - Len(suf) + 1, Len(s)) = suf

\* str.rstrip(chars): drops trailing characters while they are in `chars`
RECURSIVE RStrip(_, _)
RStrip(s, chars) ==
    IF s # <<>> /\ s[Len(s)] \in chars
        THEN RStrip(SubSeq(s, 1, Len(s) - 1), chars)
        ELSE s

\* str.rfind('/') + 1, as posixpath uses it: length of the part up to and
\* including the last slash
RECURSIVE LastSlash(_)
LastSlash(p) ==
    IF p = <<>> THEN 0
    ELSE IF p[Len(p)] = "/" THEN Len(p)
    ELSE LastSlash(SubSeq(p, 1, Len(p) - 1))

\* posixpath.dirname
Dirname(p) ==
    LET head == SubSeq(p, 1, LastSlash(p))
    IN  IF head # <<>> /\ \E k \in 1..Len(head) : head[k] # "/"
            THEN RStrip(head, {"/"})
            ELSE head

\* posixpath.basename
Basename(p) == SubSeq(p, LastSlash(p) + 1, Len(p))

\* posixpath.join of two components
Join(a, b) ==
    IF b # <<>> /\ b[1] = "/" THEN b
    ELSE IF a = <<>> \/ a[Len(a)] = "/" THEN a \o b
    ELSE a \o <<"/">> \o b

NoContent == [shape |-> <<>>, data |-> <<>>]

DirEntry == [type |-> "dir", content |-> NoContent]

FileEntry(c) == [type |-> "file", content |-> c]

\* The file system keeps one entry per file or directory; a path names the
\* same entry with or without trailing slashes.
Resolve(p) ==
    IF p # <<>> /\ \E k \in 1..Len(p) : p[k] # "/" THEN RStrip(p, {"/"}) ELSE p

\* os.path.isdir / os.path.isfile on the modelled file system
IsDir(f, p) == Resolve(p) \in DOMAIN f /\ f[Resolve(p)].type = "dir"

IsFile(f, p) == Resolve(p) \in DOMAIN f /\ f[Resolve(p)].type = "file"

\* what is stored at a path
Entry(f, p) == f[Resolve(p)]

---------------------------------------------------------------------------
(* numpy arrays *)

Idx5(s) ==
    (0..(s[1] - 1)) \X (0..(s[2] - 1)) \X (0..(s[3] - 1))
        \X (0..(s[4] - 1)) \X (0..(s[5] - 1))

Idx4(s) ==
    (0..(s[1] - 1)) \X (0..(s[2] - 1)) \X (0..(s[3] - 1)) \X (0..(s[4] - 1))

\* a[1:-1, 1:-1, 1:-1, 1:-1, 1:-1]: along every axis the first and the last
\* bin are dropped; an axis shorter than 2 becomes empty
SliceInner(a) ==
    LET s == [k \in 1..5 |-> Max(a.shape[k] - 2, 0)]
    IN  [shape |-> s,
         data |-> [i \in Idx5(s) |->
                    a.data[<<i[1] + 1, i[2] + 1, i[3] + 1, i[4] + 1, i[5] + 1>>]]]

\* the reduction of ndarray.sum along axis 2 at one output bin: the first n
\* entries of the axis are added up
RECURSIVE AddAlongAxis2(_, _, _)
AddAlongAxis2(a, i, n) ==
    IF n = 0 THEN 0
    ELSE AddAlongAxis2(a, i, n - 1) + a.data[<<i[1], i[2], n - 1, i[3], i[4]>>]

\* a sum along axis 2 that misses the last bin of the axis
SumAxis2ShortByOne(a) ==
    LET s == <<a.shape[1], a.shape[2], a.shape[4], a.shape[5]>>
    IN  [shape |-> s,
         data |-> [i \in Idx4(s) |-> AddAlongAxis2(a, i, Max(a.shape[3] - 1, 0))]]

\* ndarray.sum(axis=2)
SumAxis2(a) ==
    LET s == <<a.shape[1], a.shape[2], a.shape[4], a.shape[5]>>
    IN  [shape |-> s,
         data |-> [i \in Idx4(s) |-> AddAlongAxis2(a, i, a.shape[3])]]

\* line 125: the time-independent CLSim table
TIndepTable(clsim_table) == SumAxis2(SliceInner(clsim_table))

\* line 155: the time-independent Cherenkov table
TIndepCkvTable(ckv_table) == SumAxis2(ckv_table)


---------------------------------------------------------------------------
(* generate_time_indep_tables *)

Kinds == {"clsim", "ckv"}

\* load_clsim_table_minimal(path): the 5D array under key 'table', kept whole
\* (under- and overflow bins included); `path` is the table file or the
\* directory that holds table.npy
LoadClsimTableMinimal(f, path) ==
    IF IsDir(f, path) THEN Entry(f, Join(path, TABLE_NPY)).content
    ELSE Entry(f, path).content

\* load_ckv_table(path): the 5D array under key 'ckv_table'
LoadCkvTable(f, path) ==
    IF IsDir(f, path) THEN Entry(f, Join(path, CKV_TABLE_NPY)).content
    ELSE Entry(f, path).content

\* retro.utils.misc.mkdir: the directory exists afterwards
Mkdir(f, d) == IF Resolve(d) \in DOMAIN f THEN f ELSE (Resolve(d) :> DirEntry) @@ f

\* numpy.save(fpath, array): the file is created or replaced
NpSave(f, fpath, array) == (Resolve(fpath) :> FileEntry(array)) @@ f

\* lines 65-71: where the output goes
ResolveOutdir(f, table, outdir) ==
    IF outdir # None THEN outdir
    ELSE IF IsDir(f, table) THEN table
    ELSE IF EndsWith(table, DOT_NPY) THEN Dirname(table)
    ELSE IF EndsWith(table, DOT_FITS) THEN RStrip(table, {".", "f", "i", "t", "s"})
    ELSE None

\* lines 61, 73-82: the CLSim source table found at `table`, or None
ClsimTablePath(f, table, kinds) ==
    IF IsFile(f, table)
        THEN IF Basename(table) = TABLE_NPY \/ EndsWith(Basename(table), DOT_FITS)
                THEN table
                ELSE None
    ELSE IF IsDir(f, table)
        THEN IF "clsim" \in kinds /\ IsFile(f, Join(table, TABLE_NPY))
                THEN table
                ELSE None
    ELSE None

\* lines 62, 73-85: the Cherenkov source table found at `table`, or None
CkvTablePath(f, table, kinds) ==
    IF IsFile(f, table)
        THEN IF Basename(table) = TABLE_NPY \/ EndsWith(Basename(table), DOT_FITS)
                THEN None
             ELSE IF Basename(table) = CKV_TABLE_NPY THEN table
             ELSE None
    ELSE IF IsDir(f, table)
        THEN IF "ckv" \in kinds /\ IsFile(f, Join(table, CKV_TABLE_NPY))
                THEN table
                ELSE None
    ELSE None

\* lines 87-90: t_indep_table_exists
TIndepTableExists(f, kinds, outdir) ==
    "clsim" \in kinds /\ IsFile(f, Join(outdir, T_INDEP_TABLE_NPY))

\* lines 98-101: t_indep_ckv_table_exists
TIndepCkvTableExists(f, kinds, outdir) ==
    "ckv" \in kinds /\ IsFile(f, Join(outdir, T_INDEP_CKV_TABLE_NPY))

\* a CLSim block that runs whenever the kind is requested
ClsimWantedAlways(kinds, overwrite, exists) == "clsim" \in kinds

\* line 109: whether the CLSim block runs
ClsimWanted(kinds, overwrite, exists) ==
    "clsim" \in kinds /\ (overwrite \/ ~exists)

\* line 139: whether the Cherenkov block runs
CkvWanted(kinds, overwrite, exists) ==
    "ckv" \in kinds /\ (overwrite \/ ~exists)

\* The progress of one call: the file system so far, what was loaded and
\* saved, and the exception that ended it ("none" while it runs).
Progress(f) ==
    [fs |-> f, loaded |-> {}, written |-> {}, raised |-> "none", raisedFor |-> "none"]

\* lines 109-137
ClsimBlock(st, wanted, clsim_table_path, outdir) ==
    IF ~wanted THEN st
    ELSE IF clsim_table_path = None
        THEN [st EXCEPT !.raised = "ValueError", !.raisedFor = "clsim"]
    ELSE LET made == Mkdir(st.fs, outdir)
             clsim_table == LoadClsimTableMinimal(made, clsim_table_path)
         IN  [st EXCEPT
                 !.fs = NpSave(made, Join(outdir, T_INDEP_TABLE_NPY),
                               TIndepTable(clsim_table)),
                 !.loaded = @ \cup {"clsim"},
                 !.written = @ \cup {"clsim"}]

\* lines 139-167
CkvBlock(st, wanted, ckv_table_path, outdir) ==
    IF st.raised # "none" \/ ~wanted THEN st
    ELSE IF ckv_table_path = None
        THEN [st EXCEPT !.raised = "ValueError", !.raisedFor = "ckv"]
    ELSE LET made == Mkdir(st.fs, outdir)
             ckv_table == LoadCkvTable(made, ckv_table_path)
         IN  [st EXCEPT
                 !.fs = NpSave(made, Join(outdir, T_INDEP_CKV_TABLE_NPY),
                               TIndepCkvTable(ckv_table)),
                 !.loaded = @ \cup {"ckv"},
                 !.written = @ \cup {"ckv"}]

\* lines 57-167: the whole call on file system f.  With no outdir given and
\* none derivable from `table`, join(None, ...) on line 88 raises TypeError
\* (AttributeError under Python 2) before anything else happens.
RunGenerate(f, table, kinds, outdir_arg, overwrite) ==
    LET outdir == ResolveOutdir(f, table, outdir_arg)
    IN  IF outdir = None
            THEN [Progress(f) EXCEPT !.raised = "TypeError"]
        ELSE LET clsim_table_path == ClsimTablePath(f, table, kinds)
                 ckv_table_path == CkvTablePath(f, table, kinds)
                 t_exists == TIndepTableExists(f, kinds, outdir)
                 ckv_exists == TIndepCkvTableExists(f, kinds, outdir)
                 afterClsim ==
                     ClsimBlock(Progress(f),
                                ClsimWanted(kinds, overwrite, t_exists),
                                clsim_table_path, outdir)
             IN  CkvBlock(afterClsim, CkvWanted(kinds, overwrite, ckv_exists),
                          ckv_table_path, outdir)

\* One call of generate_time_indep_tables(table, kind, outdir, overwrite).
GenerateTimeIndepTables(table, kinds, outdir_arg, overwrite) ==
    LET res == RunGenerate(fs, table, kinds, outdir_arg, overwrite)
    IN  /\ ncalls < MaxCalls
        /\ ncalls' = ncalls + 1
        /\ fs' = res.fs
        /\ pre' = fs
        /\ UNCHANGED <<fvars, xvars>>
        /\ last' = [table |-> table, kinds |-> kinds, outdir_arg |-> outdir_arg,
                    overwrite |-> overwrite,
                    outdir |-> ResolveOutdir(fs, table, outdir_arg),
                    loaded |-> res.loaded, written |-> res.written,
                    raised |-> res.raised, raisedFor |-> res.raisedFor]

NoCall ==
    [table |-> None, kinds |-> {}, outdir_arg |-> None, overwrite |-> FALSE,
     outdir |-> None, loaded |-> {}, written |-> {}, raised |-> "none",
     raisedFor |-> "none"]

---------------------------------------------------------------------------
(* fit_distributions_to_data *)

Min(a, b) == IF a <= b THEN a ELSE b

DistributionNames == {"cauchy", "expon", "norm"}

\* retro.utils.stats.fit_cdf for the task submitted for entry t of
\* `distributions`: a dict whose 'name' is the distribution's name.  `task`
\* stands for the identity of the returned object.
FitCdf(t, distribution) == [name |-> distribution, task |-> t]

\* OrderedDict.__setitem__: a new key goes to the end, a known key keeps its
\* place and gets the new value
DictSet(d, key, value) ==
    IF \E j \in 1..Len(d) : d[j].key = key
        THEN [j \in 1..Len(d) |->
                IF d[j].key = key THEN [key |-> key, value |-> value] ELSE d[j]]
        ELSE Append(d, [key |-> key, value |-> value])

\* a remove that drops the last element of the list whatever it is given
ListRemoveLast(l, x) == SubSeq(l, 1, Len(l) - 1)

\* list.remove(x): drops the first element equal to x
ListRemove(l, x) ==
    LET j == CHOOSE m \in 1..Len(l) : l[m] = x /\ \A q \in 1..(m - 1) : l[q] # x
    IN  SubSeq(l, 1, j - 1) \o SubSeq(l, j + 1, Len(l))

\* lines 308-312: the inner loop from list position i (0-based) on.  The
\* list iterator keeps its position while the list shrinks under it.
RECURSIVE MatchResults(_, _, _, _)
MatchResults(name, i, res, d) ==
    IF i >= Len(res) THEN [results |-> res, results_d |-> d]
    ELSE LET result == res[i + 1]
         IN  IF result.name = name
                 THEN MatchResults(name, i + 1, ListRemove(res, result),
                                   DictSet(d, name, result))
                 ELSE MatchResults(name, i + 1, res, d)

\* lines 306-312: the outer loop from entry j of `distributions` on
RECURSIVE MatchDistributions(_, _, _, _)
MatchDistributions(dists, j, res, d) ==
    IF j > Len(dists) THEN [results |-> res, results_d |-> d]
    ELSE LET r == MatchResults(dists[j], 0, res, d)
         IN  MatchDistributions(dists, j + 1, r.results, r.results_d)

\* lines 289-291
PoolProcesses(np, dists) == Min(np, Len(dists))

Running == {t \in 1..Len(workers) : workers[t] = "running"}

Queued == {t \in 1..Len(workers) : workers[t] = "queued"}

\* lines 256-294: the pool is created and one task per entry is submitted.
\* With an outfile, line 257 calls the misspelt str method `endsiwth` and
\* raises AttributeError; multiprocessing.Pool(processes=0) raises ValueError.
Submit ==
    /\ fpc = "start"
    /\ IF outfile \/ PoolProcesses(n_procs, distributions) < 1
          THEN /\ fpc' = "raised"
               /\ UNCHANGED <<processes, workers, waiting>>
          ELSE /\ fpc' = "collect"
               /\ processes' = PoolProcesses(n_procs, distributions)
               /\ workers' = [t \in 1..Len(distributions) |-> "queued"]
               /\ waiting' = 1
    /\ UNCHANGED <<distributions, n_procs, timeout, outfile, results, results_d,
                   tvars, xvars>>

\* an idle pool process takes the oldest queued task
PoolStart ==
    /\ Queued # {}
    /\ Cardinality(Running) < processes
    /\ LET t == CHOOSE q \in Queued : \A o \in Queued : q <= o
       IN  workers' = [workers EXCEPT ![t] = "running"]
    /\ UNCHANGED <<fpc, distributions, n_procs, timeout, outfile, processes,
                   waiting, results, results_d, tvars, xvars>>

\* a pool process finishes its fit
PoolFinish(t) ==
    /\ workers[t] = "running"
    /\ workers' = [workers EXCEPT ![t] = "done"]
    /\ UNCHANGED <<fpc, distributions, n_procs, timeout, outfile, processes,
                   waiting, results, results_d, tvars, xvars>>

\* lines 296-302: worker.get returns the finished task's result
Get ==
    /\ fpc = "collect"
    /\ waiting <= Len(workers)
    /\ workers[waiting] = "done"
    /\ results' = Append(results, FitCdf(waiting, distributions[waiting]))
    /\ waiting' = waiting + 1
    /\ UNCHANGED <<fpc, distributions, n_procs, timeout, outfile, processes,
                   workers, results_d, tvars, xvars>>

\* lines 299-300: with a timeout, get() gives up on a task that is not done
GetTimeout ==
    /\ fpc = "collect"
    /\ timeout
    /\ waiting <= Len(workers)
    /\ workers[waiting] # "done"
    /\ waiting' = waiting + 1
    /\ UNCHANGED <<fpc, distributions, n_procs, timeout, outfile, processes,
                   workers, results, results_d, tvars, xvars>>

\* lines 304-321: the results are matched to the distributions
Match ==
    /\ fpc = "collect"
    /\ waiting > Len(workers)
    /\ IF Len(results) = 0
          THEN /\ fpc' = "raised"
               /\ UNCHANGED <<results, results_d>>
          ELSE LET r == MatchDistributions(distributions, 1, results, <<>>)
               IN  /\ fpc' = "done"
                   /\ results' = r.results
                   /\ results_d' = r.results_d
    /\ UNCHANGED <<distributions, n_procs, timeout, outfile, processes, workers,
                   waiting, tvars, xvars>>

DistributionLists ==
    UNION {[1..n -> DistributionNames] : n \in 0..MaxDists}

FitIdle ==
    /\ fpc = "idle"
    /\ distributions = <<>>
    /\ n_procs = 0
    /\ timeout = FALSE
    /\ outfile = FALSE
    /\ processes = 0
    /\ workers = <<>>
    /\ waiting = 0
    /\ results = <<>>
    /\ results_d = <<>>

ExtractIdle ==
    /\ xpc = "idle"
    /\ files = <<>>
    /\ truth = <<>>
    /\ reco_vals = <<>>
    /\ reco_perf = <<>>
    /\ xraised = "none"
    /\ fits = <<>>

TablesIdle ==
    /\ fs = <<>>
    /\ pre = <<>>
    /\ last = <<>>
    /\ ncalls = 0

InitFit ==
    /\ fpc = "start"
    /\ distributions \in DistributionLists
    /\ n_procs \in 1..MaxProcs
    /\ timeout \in BOOLEAN
    /\ outfile \in BOOLEAN
    /\ processes = 0
    /\ workers = <<>>
    /\ waiting = 0
    /\ results = <<>>
    /\ results_d = <<>>
    /\ TablesIdle
    /\ ExtractIdle

NextFit ==
    \/ Submit
    \/ PoolStart
    \/ \E t \in 1..Len(workers) : PoolFinish(t)
    \/ Get
    \/ GetTimeout
    \/ Match

SpecFit == InitFit /\ [][NextFit]_vars

---------------------------------------------------------------------------
(* extract and fit *)

\* ABS_FLAVS, line 83
ABS_FLAVS == <<12, 14, 16>>

\* the `recos` and `params` arguments
Recos == <<"LineFit", "SPEFit2">>

Params == <<"x", "time">>

\* sorted(params), line 353
SortedParams == <<"time", "x">>

\* the place of x in the sequence seq
IndexIn(seq, x) == CHOOSE n \in 1..Len(seq) : seq[n] = x

\* floating point values: a number, or not finite
Float(v) == [finite |-> TRUE, v |-> v]

NaN == [finite |-> FALSE, v |-> 0]

\* numpy.isfinite
IsFinite(a) == a.finite

\* float subtraction
Sub(a, b) == IF a.finite /\ b.finite THEN Float(a.v - b.v) ELSE NaN

\* FitStatus.OK and another member of the enumeration
FitStatusOK == "OK"

FitStatusFailed == "Failed"

\* lines 123-134 and 139-153: files i, i+1, ... of one name are loaded until
\* one is missing and concatenated
RECURSIVE LoadFrom(_, _, _, _)
LoadFrom(disk, abs_flav, name, i) ==
    IF <<abs_flav, i, name>> \in DOMAIN disk
        THEN disk[<<abs_flav, i, name>>] \o LoadFrom(disk, abs_flav, name, i + 1)
        ELSE <<>>

\* lines 137-160: flav_recos, the recos that have a file for the flavor, as
\* [key, value] entries in the order of `recos`
RECURSIVE FlavRecos(_, _, _)
FlavRecos(disk, abs_flav, recos) ==
    IF recos = <<>> THEN <<>>
    ELSE LET vals == LoadFrom(disk, abs_flav, recos[1], 0)
             rest == FlavRecos(disk, abs_flav, SubSeq(recos, 2, Len(recos)))
         IN  IF vals # <<>>
                 THEN <<[key |-> recos[1], value |-> vals]>> \o rest
                 ELSE rest

\* dict lookup with a default
DictGet(d, key, default) ==
    IF \E j \in 1..Len(d) : d[j].key = key
        THEN d[CHOOSE j \in 1..Len(d) : d[j].key = key].value
        ELSE default

\* lines 166-169 for one flavor: each reco's array is appended to its list
RECURSIVE AppendFlav(_, _)
AppendFlav(d, flav_recos) ==
    IF flav_recos = <<>> THEN d
    ELSE LET e == flav_recos[1]
         IN  AppendFlav(DictSet(d, e.key, DictGet(d, e.key, <<>>) \o e.value),
                        SubSeq(flav_recos, 2, Len(flav_recos)))

\* lines 162-173: reco_vals, each reco's arrays concatenated over the flavors
\* that have any
RECURSIVE RecoVals(_, _, _)
RecoVals(disk, recos, n) ==
    IF n = 0 THEN <<>>
    ELSE AppendFlav(RecoVals(disk, recos, n - 1),
                    FlavRecos(disk, ABS_FLAVS[n], recos))

\* lines 163-165, 174: truth, concatenated over the flavors
RECURSIVE Truth(_, _)
Truth(disk, n) ==
    IF n = 0 THEN <<>>
    ELSE Truth(disk, n - 1) \o LoadFrom(disk, ABS_FLAVS[n], "truth", 0)

\* numpy broadcasting of two 1-D arrays
Broadcasts(n, m) == n = m \/ n = 1 \/ m = 1

BroadcastAt(a, i) == IF Len(a) = 1 THEN a[1] ELSE a[i]

\* lines 181-182 and 378-379: the positions the mask keeps
MaskedPositions(vals, tr, param) ==
    {i \in 1..Max(Len(vals), Len(tr)) :
        /\ IsFinite(Sub(BroadcastAt(vals, i)[param], BroadcastAt(tr, i)[param]))
        /\ BroadcastAt(vals, i).fit_status = FitStatusOK}

\* the positions of S in increasing order
RECURSIVE Ascending(_)
Ascending(S) ==
    IF S = {} THEN <<>>
    ELSE LET m == CHOOSE x \in S : \A y \in S : y <= x
         IN  Append(Ascending(S \ {m}), m)

\* err[mask] with weights[mask]: per kept position the event the reco value
\* is of, the error and the weight it is given
Selected(vals, tr, param) ==
    LET pos == Ascending(MaskedPositions(vals, tr, param))
    IN  [j \in 1..Len(pos) |->
            [ev |-> BroadcastAt(vals, pos[j]).ev,
             err |-> Sub(BroadcastAt(vals, pos[j])[param],
                         BroadcastAt(tr, pos[j])[param]),
             weight |-> tr[pos[j]].weight]]

\* lines 180-206 for one (reco, param): the summary record, or the exception.
\* Arrays that do not broadcast raise ValueError on line 181; a boolean mask
\* longer than `weights` raises IndexError on line 189.
PairInfo(reco, vals, tr, param) ==
    IF ~Broadcasts(Len(vals), Len(tr))
        THEN [raised |-> "ValueError", info |-> <<>>]
    ELSE IF MaskedPositions(vals, tr, param) = {}
        THEN [raised |-> "ValueError", info |-> <<>>]
    ELSE IF Len(tr) # Max(Len(vals), Len(tr))
        THEN [raised |-> "IndexError", info |-> <<>>]
    ELSE [raised |-> "none",
          info |-> [reco |-> reco, param |-> param,
                    n_invalid |-> Max(Len(vals), Len(tr))
                                    - Cardinality(MaskedPositions(vals, tr, param)),
                    selected |-> Selected(vals, tr, param)]]

\* lines 176-206: the loop over the entries of reco_vals from entry j and
\* over the params from param k on; the first exception ends it
RECURSIVE RecoPerf(_, _, _, _, _)
RecoPerf(rv, tr, j, k, acc) ==
    IF j > Len(rv) THEN [raised |-> "none", reco_perf |-> acc]
    ELSE IF k > Len(Params) THEN RecoPerf(rv, tr, j + 1, 1, acc)
    ELSE LET r == PairInfo(rv[j].key, rv[j].value, tr, Params[k])
         IN  IF r.raised # "none"
                 THEN [raised |-> r.raised, reco_perf |-> acc]
                 ELSE RecoPerf(rv, tr, j, k + 1, Append(acc, r.info))

\* lines 208-210: the summary sorted by its columns; reco and param come
\* first and tell the rows apart (the names of `recos` are in sorted order)
RECURSIVE SortValues(_)
SortValues(perf) ==
    IF perf = <<>> THEN <<>>
    ELSE LET rank(info) ==
                 IndexIn(Recos, info.reco) * (Len(SortedParams) + 1)
                     + IndexIn(SortedParams, info.param)
             m == CHOOSE n \in 1..Len(perf) :
                      \A o \in 1..Len(perf) : rank(perf[n]) <= rank(perf[o])
         IN  <<perf[m]>>
                 \o SortValues(SubSeq(perf, 1, m - 1) \o SubSeq(perf, m + 1, Len(perf)))

\* extract(path_proto, recos, params, outdir): lines 114-231, run with an
\* outdir as the command line requires.  With no reco
\* loaded, reco_perf[0] on line 207 raises IndexError.  The arrays are
\* pickled to outdir only when extract gets to its end.
Extract ==
    /\ xpc = "start"
    /\ LET tr == Truth(files, Len(ABS_FLAVS))
           rv == RecoVals(files, Recos, Len(ABS_FLAVS))
           perf == RecoPerf(rv, tr, 1, 1, <<>>)
           exc == IF perf.raised # "none" THEN perf.raised
                  ELSE IF perf.reco_perf = <<>> THEN "IndexError"
                  ELSE "none"
       IN  /\ xraised' = exc
           /\ xpc' = IF exc = "none" THEN "returned" ELSE "raised"
           /\ truth' = IF exc = "none" THEN tr ELSE truth
           /\ reco_vals' = IF exc = "none" THEN rv ELSE reco_vals
           /\ reco_perf' = IF exc = "none" THEN SortValues(perf.reco_perf)
                            ELSE reco_perf
    /\ UNCHANGED <<files, fits, tvars, fvars>>

\* fit(datadir, reco, params, ...): lines 353-404, on the arrays extract
\* pickled: per param, in sorted order, the errors and weights handed to
\* fit_distributions_to_data, of which the fits written to the fit_info file
\* are a function.  A reco that extract did not load raises KeyError on
\* line 378.
Fit(reco) ==
    /\ xpc = "returned"
    /\ fits' =
          IF \E j \in 1..Len(reco_vals) : reco_vals[j].key = reco
              THEN [reco |-> reco, raised |-> "none",
                    selected |-> [k \in 1..Len(SortedParams) |->
                                    Selected(DictGet(reco_vals, reco, <<>>), truth,
                                             SortedParams[k])]]
              ELSE [reco |-> reco, raised |-> "KeyError", selected |-> <<>>]
    /\ UNCHANGED <<xpc, files, truth, reco_vals, reco_perf, xraised, tvars, fvars>>

\* One event per sample directory; its weight tells the events apart.
Weight(abs_flav, i) == abs_flav * 10 + i + 1

TruthRow(abs_flav, i) ==
    [ev |-> <<abs_flav, i>>, weight |-> Weight(abs_flav, i), x |-> Float(0),
     time |-> Float(0)]

\* the row a reco file holds for the event of its directory; `quality` says
\* what is wrong with the reco's results
RecoRow(abs_flav, i, quality) ==
    [ev |-> <<abs_flav, i>>,
     fit_status |->
        IF quality = "failed" \/ (quality = "failed_first" /\ i = 0)
            THEN FitStatusFailed ELSE FitStatusOK,
     x |-> IF quality = "nan_first" /\ i = 0 THEN NaN ELSE Float(1),
     time |-> Float(2)]

Qualities == {"good", "nan_first", "failed_first", "failed"}

FlavSet == {ABS_FLAVS[n] : n \in 1..Len(ABS_FLAVS)}

RecoSet == {Recos[n] : n \in 1..Len(Recos)}

\* The sample directories 0, 1, ... of each flavor: every flavor has at
\* least one with truth.npy, every reco has its file in the first nr of them.
Disk(nt, nr, quality) ==
    LET keys ==
            {<<c[1], c[2], "truth">> : c \in
                {<<g, h>> \in FlavSet \X (0..(MaxFiles - 1)) : h < nt[g]}}
            \cup
            {<<g, h, q>> \in FlavSet \X (0..(MaxFiles - 1)) \X RecoSet :
                h < nr[q][g]}
    IN  [key \in keys |->
            IF key[3] = "truth" THEN <<TruthRow(key[1], key[2])>>
            ELSE <<RecoRow(key[1], key[2], quality[key[3]])>>]

InitExtract ==
    /\ xpc = "start"
    /\ \E nt \in [FlavSet -> 1..MaxFiles],
          nr \in [RecoSet -> [FlavSet -> 0..MaxFiles]],
          q \in Qualities :
        files = Disk(nt, nr, [r \in RecoSet |-> IF r = Recos[1] THEN q ELSE "good"])
    /\ truth = <<>>
    /\ reco_vals = <<>>
    /\ reco_perf = <<>>
    /\ xraised = "none"
    /\ fits = <<>>
    /\ TablesIdle
    /\ FitIdle

NextExtract ==
    \/ Extract
    \/ \E reco \in RecoSet : Fit(reco)

SpecExtract == InitExtract /\ [][NextExtract]_vars

---------------------------------------------------------------------------
(* File systems and calls the table generator is run on *)

TableDir == <<"/", "d">>

OtherDir == <<"/", "o">>

\* a path at which nothing exists and that ends in neither .npy nor .fits
NoSuchPath == <<"/", "x">>

ClsimFile == Join(TableDir, TABLE_NPY)

CkvFile == Join(TableDir, CKV_TABLE_NPY)

OutName(k) == IF k = "clsim" THEN T_INDEP_TABLE_NPY ELSE T_INDEP_CKV_TABLE_NPY

\* a 5D table all of whose bins hold `base`, but for bin `hot`, which holds
\* one more
OneHot(shape, base, hot) ==
    [shape |-> shape,
     data |-> [i \in Idx5(shape) |-> base + (IF i = hot THEN 1 ELSE 0)]]

SmallTable == OneHot(<<1, 1, 2, 1, 1>>, 1, <<0, 0, 1, 0, 0>>)

\* a time-independent table left by an earlier run on other data
StaleTable == [shape |-> <<1, 1, 1, 1>>, data |-> [i \in Idx4(<<1, 1, 1, 1>>) |-> 7]]

\* The source tables of the summation runs: on every shape with the same
\* 1..MaxDim bins along each axis, every table with a single non-zero bin.
\* Slicing and summing are linear, so these span all tables of these shapes.
SourceTables ==
    {OneHot([k \in 1..5 |-> n], 0, hot) :
        <<n, hot>> \in
            {<<m, h>> \in (1..MaxDim)
                 \X ((0..(MaxDim - 1)) \X (0..(MaxDim - 1)) \X (0..(MaxDim - 1))
                     \X (0..(MaxDim - 1)) \X (0..(MaxDim - 1))) :
                h \in Idx5([k \in 1..5 |-> m])}}

\* Table file names: a stem of at most MaxStem characters and an extension.
RECURSIVE Stems(_)
Stems(n) ==
    IF n = 0 THEN {<<>>}
    ELSE Stems(n - 1) \cup
         {st \o <<c>> : <<st, c>> \in Stems(n - 1) \X {"a", "s", "t"}}

NamedPaths ==
    {Join(TableDir, st \o ext) :
        <<st, ext>> \in {<<a, b>> \in Stems(MaxStem) \X {<<>>, DOT_NPY, DOT_FITS} :
                            a \o b # <<>>}}

\* Runs on a table directory that may hold either source, a .fits table and
\* earlier outputs.
InitTables ==
    \E srcs \in SUBSET {ClsimFile, CkvFile},
       olds \in SUBSET {Join(TableDir, OutName(k)) : k \in Kinds} :
        /\ fs = [p \in {TableDir} \cup srcs \cup olds |->
                    IF p = TableDir THEN DirEntry
                    ELSE IF p \in srcs THEN FileEntry(SmallTable)
                    ELSE FileEntry(StaleTable)]
        /\ pre = fs
        /\ last = NoCall
        /\ ncalls = 0
        /\ FitIdle
        /\ ExtractIdle

NextTables ==
    \E table \in {TableDir, ClsimFile, CkvFile, NoSuchPath},
       kinds \in SUBSET Kinds, outdir \in {None, OtherDir}, overwrite \in BOOLEAN :
        GenerateTimeIndepTables(table, kinds, outdir, overwrite)

SpecTables == InitTables /\ [][NextTables]_vars

\* Runs that sum a table directory holding both sources.
InitSum ==
    \E t \in SourceTables :
        /\ fs = (TableDir :> DirEntry) @@ (ClsimFile :> FileEntry(t))
                    @@ (CkvFile :> FileEntry(t))
        /\ pre = fs
        /\ last = NoCall
        /\ ncalls = 0
        /\ FitIdle
        /\ ExtractIdle

NextSum ==
    GenerateTimeIndepTables(TableDir, Kinds, None, TRUE)

SpecSum == InitSum /\ [][NextSum]_vars

\* Runs without --outdir on variously named tables.
InitOutdir ==
    \/ /\ fs = (TableDir :> DirEntry)
       /\ pre = fs
       /\ last = NoCall
       /\ ncalls = 0
       /\ FitIdle
       /\ ExtractIdle
    \/ \E p \in NamedPaths, isdir \in BOOLEAN :
        /\ fs = (TableDir :> DirEntry)
                    @@ (p :> IF isdir THEN DirEntry ELSE FileEntry(SmallTable))
        /\ pre = fs
        /\ last = NoCall
        /\ ncalls = 0
        /\ FitIdle
        /\ ExtractIdle

NextOutdir ==
    \E table \in NamedPaths \cap DOMAIN fs, kinds \in SUBSET Kinds,
       overwrite \in BOOLEAN :
        GenerateTimeIndepTables(table, kinds, None, overwrite)

SpecOutdir == InitOutdir /\ [][NextOutdir]_vars

---------------------------------------------------------------------------
(* Properties of generate_time_indep_tables *)

Called == ncalls > 0

SourceName(k) == IF k = "clsim" THEN TABLE_NPY ELSE CKV_TABLE_NPY

\* the 5D array the last call read for kind k
SourceOf(k) ==
    IF IsDir(pre, last.table)
        THEN Entry(pre, Join(last.table, SourceName(k))).content
        ELSE Entry(pre, last.table).content

\* the array the last call left in the output file of kind k
Saved(k) == Entry(fs, Join(last.outdir, OutName(k))).content

RECURSIVE Total(_, _)
Total(f, S) ==
    IF S = {} THEN 0
    ELSE LET x == CHOOSE y \in S : TRUE IN f[x] + Total(f, S \ {x})

\* the sum of the bins of `a` at (r, costheta, costhetadir, deltaphidir) over
\* the time bins ts
TimeTotal(a, r, ct, ctd, dpd, ts) ==
    Total([t \in ts |-> a.data[<<r, ct, t, ctd, dpd>>]], ts)

SumsAllTimeBins(src, out) ==
    /\ out.shape = <<src.shape[1], src.shape[2], src.shape[4], src.shape[5]>>
    /\ \A i \in Idx4(out.shape) :
          out.data[i] =
              TimeTotal(src, i[1], i[2], i[3], i[4], 0..(src.shape[3] - 1))

OutputPaths == {p \in DOMAIN fs \cup DOMAIN pre : \E k \in Kinds : Basename(p) = OutName(k)}

Unchanged(p) ==
    IF p \in DOMAIN pre THEN p \in DOMAIN fs /\ fs[p] = pre[p] ELSE p \notin DOMAIN fs

\* C2: with overwrite false an output file that existed in outdir before the
\* call is left as it was (its kind is neither loaded nor saved and raises
\* no error, whether or not its source exists), and the output file of a
\* kind that was not requested is never written.
C2_ExistingOutputsKept ==
    /\ (Called /\ ~last.overwrite /\ last.outdir # None) =>
          \A k \in Kinds :
              IsFile(pre, Join(last.outdir, OutName(k))) =>
                  /\ Unchanged(Resolve(Join(last.outdir, OutName(k))))
                  /\ k \notin last.loaded
                  /\ k \notin last.written
                  /\ last.raisedFor # k
    /\ \A k \in Kinds \ last.kinds :
          /\ k \notin last.written
          /\ \A p \in OutputPaths : Basename(p) = OutName(k) => Unchanged(p)

\* A call without overwrite that requested both kinds: the CLSim output was
\* there and its source was not, the Cherenkov output was generated.
C2_Witness ==
    /\ Called /\ ~last.overwrite /\ last.kinds = Kinds /\ last.outdir # None
    /\ IsFile(pre, Join(last.outdir, T_INDEP_TABLE_NPY))
    /\ ClsimTablePath(pre, last.table, last.kinds) = None
    /\ last.written = {"ckv"}

\* the source table of kind k that the last call found, or None
FoundSource(k) ==
    IF k = "clsim" THEN ClsimTablePath(pre, last.table, last.kinds)
    ELSE CkvTablePath(pre, last.table, last.kinds)

\* kind k had to be generated by the last call
HadToGenerate(k) ==
    /\ k \in last.kinds
    /\ \/ last.overwrite
       \/ last.outdir = None
       \/ ~IsFile(pre, Join(last.outdir, OutName(k)))

\* C3: whenever a requested kind has to be generated and its source table is
\* not found, the call raises ValueError and has written no output file.
C3_MissingSourceRaisesBeforeWriting ==
    (Called /\ \E k \in Kinds : HadToGenerate(k) /\ FoundSource(k) = None) =>
        /\ last.raised = "ValueError"
        /\ last.written = {}
        /\ \A p \in OutputPaths : Unchanged(p)

\* C4: without outdir the output goes to the table path if it is a
\* directory, to the containing directory of a path ending in .npy, and for
\* a path ending in .fits to the path less that suffix and nothing else.
C4_DefaultOutdir ==
    (Called /\ last.outdir_arg = None /\ last.written # {}) =>
        IF IsDir(pre, last.table) THEN last.outdir = last.table
        ELSE IF EndsWith(last.table, DOT_NPY)
            THEN last.outdir = SubSeq(last.table, 1, LastSlash(last.table) - 1)
        ELSE IF EndsWith(last.table, DOT_FITS)
            THEN last.outdir =
                    SubSeq(last.table, 1, Len(last.table) - Len(DOT_FITS))
        ELSE TRUE

\* the distinct names of `dists` in the order of their first entries
RECURSIVE FirstEntries(_)
FirstEntries(dists) ==
    IF dists = <<>> THEN <<>>
    ELSE LET init == SubSeq(dists, 1, Len(dists) - 1)
             x == dists[Len(dists)]
         IN  IF \E j \in 1..Len(init) : init[j] = x
                 THEN FirstEntries(init)
                 ELSE Append(FirstEntries(init), x)

\* C5: one fit is submitted per entry of `distributions` to a pool of
\* min(n_procs, number of distributions) processes, never more of them run
\* at once, and with timeout=None the returned results_d has exactly one
\* entry per distinct name, in argument order, each holding a result of that
\* name from a fit of that distribution; the matching loop leaves no
\* collected result behind.
C5_OneResultPerDistribution ==
    /\ fpc \in {"collect", "done"} =>
          /\ Len(workers) = Len(distributions)
          /\ processes = Min(n_procs, Len(distributions))
          /\ Cardinality(Running) <= Min(n_procs, Len(distributions))
          /\ \A j \in 1..Len(results) :
                distributions[results[j].task] = results[j].name
    /\ (fpc = "done" /\ ~timeout) =>
          /\ [j \in 1..Len(results_d) |-> results_d[j].key]
                = FirstEntries(distributions)
          /\ \A j \in 1..Len(results_d) :
                /\ results_d[j].value.name = results_d[j].key
                /\ distributions[results_d[j].value.task] = results_d[j].key
          /\ results = <<>>

\* A call without timeout has returned: three distributions were fitted by
\* two processes, the first and the last of the same name.
C5_Witness ==
    /\ fpc = "done" /\ ~timeout
    /\ Len(distributions) = 3 /\ processes = 2
    /\ distributions[1] = distributions[3]
    /\ distributions[1] # distributions[2]
    /\ Len(results_d) = 2

---------------------------------------------------------------------------
(* Properties of extract and fit *)

\* C6: in every reco array extract returns, entry i is of the same event as
\* entry i of truth: the array is as long as truth and its per-flavor blocks
\* sit where truth's do.
C6_RecoAlignedWithTruth ==
    xpc = "returned" =>
        \A j \in 1..Len(reco_vals) :
            /\ Len(reco_vals[j].value) = Len(truth)
            /\ \A i \in 1..Len(truth) : reco_vals[j].value[i].ev = truth[i].ev

\* the rows the files of `reco` hold for event ev
OwnRows(reco, ev) ==
    {row \in UNION {{files[key][n] : n \in 1..Len(files[key])} :
                        key \in {c \in DOMAIN files : c[3] = reco}} :
        row.ev = ev}

\* the events of `tr` whose own error of `reco` in `param` is finite and
\* whose fit of `reco` is OK, each with its error and its own weight
RECURSIVE ValidEvents(_, _, _)
ValidEvents(tr, reco, param) ==
    IF tr = <<>> THEN <<>>
    ELSE LET t == tr[Len(tr)]
             init == ValidEvents(SubSeq(tr, 1, Len(tr) - 1), reco, param)
             ok == {r \in OwnRows(reco, t.ev) :
                        IsFinite(Sub(r[param], t[param]))
                            /\ r.fit_status = FitStatusOK}
         IN  IF ok = {} THEN init
             ELSE Append(init,
                         [ev |-> t.ev,
                          err |-> Sub((CHOOSE r \in ok : TRUE)[param], t[param]),
                          weight |-> t.weight])

\* the summary record of (reco, param)
InfoOf(reco, param) ==
    CHOOSE info \in {reco_perf[n] : n \in 1..Len(reco_perf)} :
        info.reco = reco /\ info.param = param

\* C7: extract and fit select the same events for a reco and a param, exactly
\* the events whose error is finite and whose fit status is OK, each with
\* the weight of that event; n_invalid counts all other events; and extract
\* raises ValueError rather than return when a (reco, param) pair of a
\* loaded reco has no such event.
C7_SameValidEvents ==
    /\ xpc = "returned" =>
          \A n \in 1..Len(reco_perf) :
              /\ reco_perf[n].selected
                    = ValidEvents(truth, reco_perf[n].reco, reco_perf[n].param)
              /\ reco_perf[n].n_invalid + Len(reco_perf[n].selected) = Len(truth)
              /\ reco_perf[n].selected # <<>>
    /\ (xpc = "returned" /\ fits # <<>> /\ fits.raised = "none") =>
          \A k \in 1..Len(SortedParams) :
              fits.selected[k] = InfoOf(fits.reco, SortedParams[k]).selected
    /\ (xpc # "start"
            /\ \E j \in 1..Len(RecoVals(files, Recos, Len(ABS_FLAVS))),
                  k \in 1..Len(Params) :
                  ValidEvents(Truth(files, Len(ABS_FLAVS)),
                              RecoVals(files, Recos, Len(ABS_FLAVS))[j].key,
                              Params[k]) = <<>>) =>
          (xpc = "raised" /\ xraised = "ValueError")

=============================================================================
